---- MODULE Spec2Model ----
(***************************************************************************)
(* Model of landmarkextraction.py: the landmark extractor, the four        *)
(* waypoint strategies (generate), and the trajectory executor with its    *)
(* deception statistics.                                                   *)
(*                                                                         *)
(* Texts.  A fact text such as "(at r1 l2)" is a number of Facts.  Fact 0  *)
(* stands for a fact whose text holds a character outside [A-Za-z0-9 ]     *)
(* between its parentheses (for instance "(on-table a)"), which the        *)
(* regular expression of parse_goal does not match; facts 1..NAtoms are    *)
(* matched.  A string (a goal line of hyps.dat, a landmark returned by     *)
(* get_landmarks) is the set of the fact texts written in it.              *)
(*                                                                         *)
(* Python indices are kept: lists are functions on 0..n-1.                 *)
(***************************************************************************)
EXTENDS Integers, Sequences, FiniteSets, TLC

\* ------------------------------------------------------------- bounds
NAtoms == 2      \* fact texts the pattern of parse_goal matches
NGoals == 2      \* goal lines of hyps.dat
MaxCost == 1     \* longest plan the planner returns
MaxSteps == 2    \* operators one replayed trajectory applies
MaxTrace == 3    \* records of a deception_array handed to calc_deceptive_stats

Facts == 0..NAtoms

VARIABLES
    \* ExtractLandmarks (self.l)
    goals,              \* self.goals: list of goal strings
    realGoalIndex,      \* self.realGoalIndex
    landmarks,          \* self.landmarks: list of sets of landmarks
    optimal_plans,      \* self.optimal_plans
    initialTaskGoals,   \* self.initialTask.goals
    \* the planner's landmark extraction, fixed by the domain file
    need,
    \* testApproaches / generate
    approachIdx,        \* position of the for loop over self.approaches
    lastApproach,       \* NAME of the approach whose generate() ran last
    outcome,            \* "none", "returned" or "RecursionError"
    orderedPath,        \* the list generate() returned
    mem_dict,           \* mem_dict of the last NewScoringApproach.generate()
    calls,              \* get_landmarks calls of the last NewScoring generate()
    \* testApproaches after generate(): the replay of orderedPath
    pc,                 \* "generate", "fold", "apply", "calc", "plot", "done", "fatal"
    task,               \* the Task the reduce threads: goals and initial_state
    steps,              \* steps
    deception_array,    \* deception_array
    pathPos,            \* position of reduce in orderedPath
    pathLeft,           \* operators of the current path not yet applied
    astar_len,          \* the planner's optimal plan lengths from task.initial_state
    stats               \* deceptive_stats of testApproaches (line 308)

extractorVars == <<goals, realGoalIndex, landmarks, optimal_plans, need>>
strategyVars == <<initialTaskGoals, approachIdx, lastApproach, outcome,
                  orderedPath, mem_dict, calls>>
replayVars == <<task, steps, deception_array, pathPos, pathLeft, astar_len, stats>>
vars == <<extractorVars, strategyVars, replayVars, pc>>

\* ------------------------------------------------------------- texts

\* re.findall('\([A-Za-z0-9 ]*\)', goal): the fact texts the pattern matches
Matches(f) == f \in 1..NAtoms

parse_goal(text) == {f \in text : Matches(f)}

\* every value parse_goal gives for the text of one fact
Landmarks == {parse_goal({f}) : f \in Facts}

\* --------------------------------------------------- planner (external)

\* get_landmarks(task): the goal facts and every fact some goal fact needs
get_landmarks(taskGoals) == taskGoals \cup UNION {need[g] : g \in taskGoals}

\* The extraction relations of a planning task: need[g] never holds g (the
\* planner tests only task.facts - task.goals), and a fact needed for a
\* needed fact is needed.
Oracles ==
    {n \in [Facts -> SUBSET Facts] :
        /\ \A f \in Facts : f \notin n[f]
        /\ \A f \in Facts : \A g \in n[f] : n[g] \ {f} \subseteq n[f]}


\* len(astar_search(task, LmCutHeuristic(task))) for each parsed goal, from one
\* state: an empty goal needs no operator
PlanLengths == {pl \in [Landmarks -> 0..MaxCost] : pl[{}] = 0}

\* ----------------------------------------------------- ExtractLandmarks

\* generate_optimal: goal_task.goals = parse_goal(goal); len(goal_plan)
generate_optimal(gs, pl) == [i \in DOMAIN gs |-> pl[parse_goal(gs[i])]]

\* __populate: the parsed landmarks of the task built from each goal line
Populate(gs) ==
    [i \in DOMAIN gs |-> {parse_goal({f}) : f \in get_landmarks(gs[i])}]

getGoal(index, parse) == IF parse THEN parse_goal(goals[index]) ELSE goals[index]
getRealGoal(parse) == getGoal(realGoalIndex, parse)
getLandmark(index) == landmarks[index]
getRealLandmark == getLandmark(realGoalIndex)

\* ------------------------------------------------------ Python built-ins

\* the elements of a set in the order a for loop visits them, where ord is
\* the visiting order of all fact texts (any order: Python fixes none)
InOrder(S, ord) == SelectSeq(ord, LAMBDA f : f \in S)
LandmarksInOrder(S, ord) ==
    SelectSeq([i \in DOMAIN ord |-> parse_goal({ord[i]})], LAMBDA L : L \in S)
Orders ==
    {o \in [1..Cardinality(Facts) -> Facts] :
        \A i, j \in DOMAIN o : o[i] = o[j] => i = j}

\* len() of an entry of landmarkIntersection
PyLen(x) == Cardinality(x.elems)

\* max(list, key=len): the first entry no later entry exceeds
RECURSIVE MaxLoop(_, _, _)
MaxLoop(list, i, best) ==
    IF i \notin DOMAIN list THEN best
    ELSE MaxLoop(list, i + 1, IF PyLen(list[i]) > PyLen(best) THEN list[i] ELSE best)
MaxByLen(list) == MaxLoop(list, 1, list[0])

\* list.index(x): the first position holding a value equal to x
ListIndex(list, x) ==
    CHOOSE i \in DOMAIN list : list[i] = x /\ \A j \in DOMAIN list : j < i => list[j] # x

\* sorted(items, key=...): ascending, equal keys keep their order
InsertByKey(x, s, key) ==
    LET k == Cardinality({i \in 1..Len(s) : key[s[i]] <= key[x]})
    IN SubSeq(s, 1, k) \o <<x>> \o SubSeq(s, k + 1, Len(s))
\* mutant of Sorted: descending
RECURSIVE SortedDescending(_, _)
SortedDescending(items, key) ==
    IF items = <<>> THEN <<>>
    ELSE LET rest == SortedDescending(SubSeq(items, 1, Len(items) - 1), key)
             x == items[Len(items)]
             k == Cardinality({i \in 1..Len(rest) : key[rest[i]] >= key[x]})
         IN SubSeq(rest, 1, k) \o <<x>> \o SubSeq(rest, k + 1, Len(rest))
RECURSIVE Sorted(_, _)
Sorted(items, key) ==
    IF items = <<>> THEN <<>>
    ELSE InsertByKey(items[Len(items)], Sorted(SubSeq(items, 1, Len(items) - 1), key), key)

\* ----------------------------------------------------------- strategies

\* [i.intersection(getRealLandmark()) for i in landmarks], then the entry of
\* the real goal replaced by {} (an empty dict, which equals no set)
landmarkIntersection ==
    [i \in DOMAIN landmarks |->
        IF i = realGoalIndex
        THEN [kind |-> "dict", elems |-> {}]
        ELSE [kind |-> "set", elems |-> landmarks[i] \cap getRealLandmark]]

\* landmarkIntersection.index(max(landmarkIntersection, key=len))
landmarkSetIndex == ListIndex(landmarkIntersection, MaxByLen(landmarkIntersection))

BaselineApproach_generate == <<getRealGoal(TRUE)>>

\* mutant of GoalToRealGoalApproach.generate: the two appends exchanged
GoalToRealGoal_RealFirst ==
    <<getRealGoal(TRUE), getGoal(landmarkSetIndex, TRUE)>>
GoalToRealGoalApproach_generate ==
    <<getGoal(landmarkSetIndex, TRUE), getRealGoal(TRUE)>>

\* OldScoringApproach.generate.ordering_score: len(get_landmarks(initialTask))
OldScore(landmark) == Cardinality(get_landmarks(landmark))

OldScoringApproach_generate(ord) ==
    LET landmarkSet == MaxByLen(landmarkIntersection).elems
        items == LandmarksInOrder(landmarkSet, ord)
        key == [L \in landmarkSet |-> OldScore(L)]
    IN [path |-> Sorted(items, key) \o <<getRealGoal(TRUE)>>,
        taskGoals |-> IF items = <<>> THEN initialTaskGoals ELSE items[Len(items)]]

\* Python's recursion limit: any depth no chain of distinct landmarks reaches
RecursionLimit == Cardinality(Landmarks)

\* mem_dict = {}: no landmark has a score (get() gives None, here 0)
EmptyMemDict == [L \in Landmarks |-> 0]

\* NewScoringApproach.generate.ordering_score.  st holds mem_dict, the calls
\* of get_landmarks so far, initialTask.goals, and whether RecursionError is
\* propagating.
RECURSIVE ordering_score(_, _, _, _)
RECURSIVE SumScores(_, _, _, _)
ordering_score(landmark, st, ord, depth) ==
    IF st.err THEN [score |-> 0, st |-> st]
    ELSE IF st.mem[landmark] # 0 THEN [score |-> st.mem[landmark], st |-> st]
    ELSE IF depth = 0 THEN [score |-> 0, st |-> [st EXCEPT !.err = TRUE]]
    ELSE LET st1 == [st EXCEPT !.taskGoals = landmark, !.calls[landmark] = @ + 1]
             lms == get_landmarks(landmark) \ landmark
             r == SumScores(InOrder(lms, ord), st1, ord, depth - 1)
         IN IF r.st.err THEN [score |-> 0, st |-> r.st]
            ELSE [score |-> r.score + 1,
                  st |-> [r.st EXCEPT !.mem[landmark] = r.score + 1]]
SumScores(lms, st, ord, depth) ==
    IF lms = <<>> THEN [score |-> 0, st |-> st]
    ELSE LET h == ordering_score(parse_goal({Head(lms)}), st, ord, depth)
             t == SumScores(Tail(lms), h.st, ord, depth)
         IN [score |-> h.score + t.score, st |-> t.st]

\* the key calls of sorted(combinedLandmarks, key=...), in visiting order
RECURSIVE ScoreAll(_, _, _)
ScoreAll(items, st, ord) ==
    IF items = <<>> THEN st
    ELSE ScoreAll(Tail(items), ordering_score(Head(items), st, ord, RecursionLimit).st, ord)

\* what mem_dict holds when generate() starts: a mem_dict of an earlier call
\* (the mutant), or the new one of line 236
StaleMemDict == mem_dict
FreshMemDict == EmptyMemDict

\* closestLandmarks.union(realGoalLandmarks)
combinedLandmarks == getLandmark(landmarkSetIndex) \cup getRealLandmark

NewScoringApproach_generate(ord) ==
    LET items == LandmarksInOrder(combinedLandmarks, ord)
        st0 == [mem |-> FreshMemDict, calls |-> [L \in Landmarks |-> 0],
                taskGoals |-> initialTaskGoals, err |-> FALSE]
        st == ScoreAll(items, st0, ord)
    IN [path |-> Sorted(items, st.mem) \o <<getRealGoal(TRUE)>>, st |-> st]

\* ------------------------------------------------- testApproaches (loop)

NAMES == <<"Baseline Approach", "Goal to Real Goal Approach",
           "Old Scoring Approach", "New Scoring Approach">>

Running == pc = "generate" /\ outcome # "RecursionError"

Advance(name) ==
    /\ lastApproach' = name
    /\ approachIdx' = (approachIdx + 1) % Len(NAMES)
    /\ UNCHANGED <<extractorVars, replayVars, pc>>

BaselineGenerate ==
    /\ Running /\ approachIdx = 0
    /\ orderedPath' = BaselineApproach_generate
    /\ outcome' = "returned"
    /\ Advance(NAMES[1])
    /\ UNCHANGED <<initialTaskGoals, mem_dict, calls>>

GoalToRealGoalGenerate ==
    /\ Running /\ approachIdx = 1
    /\ orderedPath' = GoalToRealGoalApproach_generate
    /\ outcome' = "returned"
    /\ Advance(NAMES[2])
    /\ UNCHANGED <<initialTaskGoals, mem_dict, calls>>

OldScoringGenerate ==
    /\ Running /\ approachIdx = 2
    /\ \E ord \in Orders : \E r \in {OldScoringApproach_generate(ord)} :
           /\ orderedPath' = r.path
           /\ initialTaskGoals' = r.taskGoals
    /\ outcome' = "returned"
    /\ Advance(NAMES[3])
    /\ UNCHANGED <<mem_dict, calls>>

NewScoringGenerate ==
    /\ Running /\ approachIdx = 3
    /\ \E ord \in Orders : \E r \in {NewScoringApproach_generate(ord)} :
           /\ mem_dict' = r.st.mem
           /\ calls' = r.st.calls
           /\ initialTaskGoals' = r.st.taskGoals
           /\ IF r.st.err
              THEN /\ outcome' = "RecursionError"
                   /\ UNCHANGED <<orderedPath, approachIdx, lastApproach>>
                   /\ UNCHANGED <<extractorVars, replayVars, pc>>
              ELSE /\ outcome' = "returned"
                   /\ orderedPath' = r.path
                   /\ Advance(NAMES[4])

\* ------------------------------------------------------ deception metrics

\* ApproachTester.optc: the goal field is overwritten for the search and put
\* back; pl holds the planner's plan lengths from state_task.initial_state
optc(goal, state_task, pl) ==
    LET original_goal == state_task.goals
        searched == [state_task EXCEPT !.goals = getGoal(goal, TRUE)]
        state_plan == pl[searched.goals]
    IN [task |-> [searched EXCEPT !.goals = original_goal], len |-> state_plan]

\* mutant of the loop of deceptive_stats: <= for <
RECURSIVE StatsLoopLe(_, _, _, _, _)
StatsLoopLe(i, state_task, truthful, true_cost_diff, pl) ==
    IF i \notin DOMAIN goals THEN [task |-> state_task, truthful |-> truthful]
    ELSE IF i = realGoalIndex
    THEN StatsLoopLe(i + 1, state_task, truthful, true_cost_diff, pl)
    ELSE LET r == optc(i, state_task, pl)
         IN StatsLoopLe(i + 1, r.task,
                        IF true_cost_diff <= r.len - optimal_plans[i] THEN TRUE ELSE truthful,
                        true_cost_diff, pl)

\* the for loop of deceptive_stats over range(len(self.l.goals))
RECURSIVE StatsLoop(_, _, _, _, _)
StatsLoop(i, state_task, truthful, true_cost_diff, pl) ==
    IF i \notin DOMAIN goals THEN [task |-> state_task, truthful |-> truthful]
    ELSE IF i = realGoalIndex
    THEN StatsLoop(i + 1, state_task, truthful, true_cost_diff, pl)
    ELSE LET r == optc(i, state_task, pl)
         IN StatsLoop(i + 1, r.task,
                      IF true_cost_diff < r.len - optimal_plans[i] THEN TRUE ELSE truthful,
                      true_cost_diff, pl)

deceptive_stats(state_task, pl) ==
    LET first == optc(realGoalIndex, state_task, pl)
        opt_state_to_goal == first.len
        true_cost_diff == opt_state_to_goal - optimal_plans[realGoalIndex]
        loop == StatsLoop(0, first.task, FALSE, true_cost_diff, pl)
        plan_completion == optimal_plans[realGoalIndex] - opt_state_to_goal
    IN [task |-> loop.task,
        record |-> [truthful |-> loop.truthful, plan_completion |-> plan_completion]]

\* mutant of the loop of calc_deceptive_stats: the largest plan completion of
\* a record that is not truthful, for the last
RECURSIVE CalcLoopMax(_, _, _, _)
CalcLoopMax(arr, k, truths, LDP_path_comp) ==
    IF k > Len(arr) THEN [truths |-> truths, LDP_path_comp |-> LDP_path_comp]
    ELSE IF arr[k].truthful
    THEN CalcLoopMax(arr, k + 1, truths + 1, LDP_path_comp)
    ELSE CalcLoopMax(arr, k + 1, truths,
                     IF arr[k].plan_completion > LDP_path_comp
                     THEN arr[k].plan_completion ELSE LDP_path_comp)

\* the for loop of calc_deceptive_stats
RECURSIVE CalcLoop(_, _, _, _)
CalcLoop(arr, k, truths, LDP_path_comp) ==
    IF k > Len(arr) THEN [truths |-> truths, LDP_path_comp |-> LDP_path_comp]
    ELSE IF arr[k].truthful
    THEN CalcLoop(arr, k + 1, truths + 1, LDP_path_comp)
    ELSE CalcLoop(arr, k + 1, truths, arr[k].plan_completion)

\* mutant of calc_deceptive_stats: a float division, which gives inf for 1/0
calc_deceptive_stats_inf(arr) ==
    LET r == CalcLoop(arr, 1, 0, 0)
    IN [raised |-> "nothing",
        density |-> [num |-> 1, den |-> r.truths],
        extent |-> r.LDP_path_comp]

\* calc_deceptive_stats: 1/truths raises ZeroDivisionError when truths is 0;
\* the quotient 1/truths is kept as numerator and denominator
calc_deceptive_stats(arr) ==
    LET r == CalcLoop(arr, 1, 0, 0)
    IN IF r.truths = 0
       THEN [raised |-> "ZeroDivisionError"]
       ELSE [raised |-> "nothing",
             density |-> [num |-> 1, den |-> r.truths],
             extent |-> r.LDP_path_comp]

NoStats == [raised |-> "unset"]

\* --------------------------------------------- testApproaches (one replay)

\* pathToGoal up to the for loop: task.goals = goal and the search for a path
PathToGoal ==
    /\ pc = "fold" /\ pathPos <= Len(orderedPath)
    /\ task' = [task EXCEPT !.goals = orderedPath[pathPos]]
    /\ \E k \in 0..(MaxSteps - steps) : pathLeft' = k
    /\ pc' = "apply"
    /\ UNCHANGED <<extractorVars, strategyVars, steps, deception_array, pathPos,
                   astar_len, stats>>

\* one turn of "for op in path": the operator is applied (the states of a
\* replay are numbered as they are reached) and deceptive_stats(task) appended
ApplyOp ==
    /\ pc = "apply" /\ pathLeft > 0
    /\ \E pl \in PlanLengths :
       \E r \in {deceptive_stats([task EXCEPT !.initial_state = @ + 1], pl)} :
           /\ astar_len' = pl
           /\ task' = r.task
           /\ deception_array' = Append(deception_array, r.record)
    /\ steps' = steps + 1
    /\ pathLeft' = pathLeft - 1
    /\ UNCHANGED <<extractorVars, strategyVars, pathPos, stats, pc>>

\* the path is used up: pathToGoal returns, reduce takes the next goal
EndPath ==
    /\ pc = "apply" /\ pathLeft = 0
    /\ pathPos' = pathPos + 1
    /\ pc' = IF pathPos = Len(orderedPath) THEN "calc" ELSE "fold"
    /\ UNCHANGED <<extractorVars, strategyVars, task, steps, deception_array,
                   pathLeft, astar_len, stats>>

\* line 308: deceptive_stats = self.calc_deceptive_stats(deception_array)
CalcStats ==
    /\ pc = "calc"
    /\ \E r \in {calc_deceptive_stats(deception_array)} :
          IF r.raised = "ZeroDivisionError"
          THEN pc' = "fatal" /\ UNCHANGED stats
          ELSE pc' = "plot" /\ stats' = r
    /\ UNCHANGED <<extractorVars, strategyVars, task, steps, deception_array,
                   pathPos, pathLeft, astar_len>>

\* lines 309-311: the plot and the two printed statistics
PlotAndPrint ==
    /\ pc = "plot"
    /\ pc' = "done"
    /\ UNCHANGED <<extractorVars, strategyVars, replayVars>>

\* ------------------------------------------------------- specifications

\* the goal lines of hyps.dat: here each line names one fact
GoalLines == {{f} : f \in Facts}

\* Facts 1..NAtoms are numbered in the order the goal lines first mention them.
NumberedByFirstMention(gs) ==
    \A i \in DOMAIN gs : \A f \in gs[i] :
        f > 1 => \E j \in DOMAIN gs : j <= i /\ (f - 1) \in gs[j]

\* __unpackFiles: the goal lines, and goals.index(real goal line)
Unpacked ==
    /\ \E n \in 1..NGoals : goals \in [0..(n - 1) -> GoalLines]
    /\ NumberedByFirstMention(goals)
    /\ realGoalIndex \in
        {i \in DOMAIN goals : \A j \in DOMAIN goals : j < i => goals[j] # goals[i]}

NoReplay ==
    /\ task = [goals |-> goals[0], initial_state |-> 0]
    /\ steps = 0
    /\ deception_array = <<>>
    /\ pathPos = 1
    /\ pathLeft = 0
    /\ stats = NoStats

NoStrategyRun ==
    /\ initialTaskGoals = goals[0]
    /\ approachIdx = 0
    /\ lastApproach = "none"
    /\ outcome = "none"
    /\ orderedPath = <<>>
    /\ mem_dict = EmptyMemDict
    /\ calls = [L \in Landmarks |-> 0]

\* The strategies.  The state once ExtractLandmarks(domaindir, hypsdir,
\* realhypdir, templatedir) is constructed; no strategy reads optimal_plans,
\* which is fixed here to one operator per goal fact.
Init ==
    /\ need \in Oracles
    /\ Unpacked
    /\ landmarks = Populate(goals)
    /\ astar_len = [L \in Landmarks |-> IF L = {} THEN 0 ELSE 1]
    /\ optimal_plans = generate_optimal(goals, astar_len)
    /\ NoStrategyRun
    /\ NoReplay
    /\ pc = "generate"

Next ==
    \/ BaselineGenerate
    \/ GoalToRealGoalGenerate
    \/ OldScoringGenerate
    \/ NewScoringGenerate

Spec == Init /\ [][Next]_vars

\* The replay of one orderedPath.  The state of testApproaches once generate()
\* has returned: a path Direct or NearestDecoy returns, for any decoy index,
\* in a domain where no fact needs another.
ReplayPaths ==
    {<<getRealGoal(TRUE)>>}
        \cup {<<getGoal(d, TRUE), getRealGoal(TRUE)>> : d \in DOMAIN goals}

InitReplay ==
    /\ need = [f \in Facts |-> {}]
    /\ Unpacked
    /\ landmarks = Populate(goals)
    /\ astar_len \in PlanLengths
    /\ optimal_plans = generate_optimal(goals, astar_len)
    /\ initialTaskGoals = goals[0]
    /\ approachIdx = 0
    /\ lastApproach = "none"
    /\ outcome = "returned"
    /\ orderedPath \in ReplayPaths
    /\ mem_dict = EmptyMemDict
    /\ calls = [L \in Landmarks |-> 0]
    /\ NoReplay
    /\ pc = "fold"

NextReplay ==
    \/ PathToGoal
    \/ ApplyOp
    \/ EndPath
    \/ CalcStats
    \/ PlotAndPrint

SpecReplay == InitReplay /\ [][NextReplay]_vars

\* calc_deceptive_stats on any deception_array of at most MaxTrace records:
\* the state of testApproaches at line 308.
Records == [truthful : BOOLEAN, plan_completion : (0 - MaxCost)..MaxCost]
Traces == UNION {[1..n -> Records] : n \in 0..MaxTrace}

InitCalc ==
    /\ need = [f \in Facts |-> {}]
    /\ goals = [i \in 0..0 |-> {1}]
    /\ realGoalIndex = 0
    /\ landmarks = Populate(goals)
    /\ astar_len = [L \in Landmarks |-> IF L = {} THEN 0 ELSE MaxCost]
    /\ optimal_plans = generate_optimal(goals, astar_len)
    /\ NoStrategyRun
    /\ task = [goals |-> getRealGoal(TRUE), initial_state |-> 0]
    /\ steps = 0
    /\ deception_array \in Traces
    /\ pathPos = 1
    /\ pathLeft = 0
    /\ stats = NoStats
    /\ pc = "calc"

NextCalc ==
    \/ CalcStats
    \/ PlotAndPrint

SpecCalc == InitCalc /\ [][NextCalc]_vars

\* ------------------------------------------------------------- claims

IsNew == pc = "generate" /\ lastApproach = NAMES[4] /\ outcome = "returned"

\* C1: the sequence generate() of each of the four strategies returns is not
\* empty and ends with the parsed goal of the real goal.
C1_LastIsRealGoal ==
    (pc = "generate" /\ outcome = "returned") =>
        /\ Len(orderedPath) >= 1
        /\ orderedPath[Len(orderedPath)] = parse_goal(goals[realGoalIndex])

C1_Witness ==
    /\ IsNew
    /\ Len(orderedPath) >= 3
    /\ orderedPath[1] # orderedPath[Len(orderedPath)]

\* C2: the decoy index the selection step of GoalToRealGoalApproach and of
\* NewScoringApproach picks among two or more hypotheses is never the index
\* of the real goal.
Decoys == DOMAIN goals \ {realGoalIndex}
C2_DecoyIsNotReal ==
    (pc = "generate" /\ lastApproach \in {NAMES[2], NAMES[4]} /\ Decoys # {}) =>
        landmarkSetIndex # realGoalIndex

\* C3: GoalToRealGoalApproach returns [goal of d, real goal], d the lowest
\* index other than the real one whose landmarks share the most with the real
\* goal's.
Shared(i) == Cardinality(landmarks[i] \cap landmarks[realGoalIndex])
NearestDecoy ==
    CHOOSE d \in Decoys :
        /\ \A i \in Decoys : Shared(i) <= Shared(d)
        /\ \A i \in Decoys : Shared(i) = Shared(d) => d <= i
C3_NearestDecoy ==
    (pc = "generate" /\ lastApproach = NAMES[2] /\ Decoys # {}) =>
        orderedPath = <<parse_goal(goals[NearestDecoy]), parse_goal(goals[realGoalIndex])>>

\* C4: the record deceptive_stats appends is truthful exactly when some
\* index other than the real one has a strictly larger cost difference.
costDiff(g) == astar_len[parse_goal(goals[g])] - optimal_plans[g]
C4_Truthful ==
    steps >= 1 =>
        deception_array[Len(deception_array)].truthful =
            (\E i \in DOMAIN goals :
                i # realGoalIndex /\ costDiff(realGoalIndex) < costDiff(i))

C4_Witness ==
    /\ pc = "apply" /\ steps >= 1
    /\ deception_array[Len(deception_array)].truthful
    /\ \E i \in DOMAIN goals : i # realGoalIndex /\ costDiff(i) = costDiff(realGoalIndex) + 1

\* C5: with a truthful record, calc_deceptive_stats returns density 1 / (the
\* number of truthful records) and extent the plan completion of the last
\* record that is not truthful (0 without one).
TruthfulAt == {k \in DOMAIN deception_array : deception_array[k].truthful}
DeceptiveAt == DOMAIN deception_array \ TruthfulAt
LastDeceptive == CHOOSE k \in DeceptiveAt : \A j \in DeceptiveAt : j <= k
Rec(t, c) == [truthful |-> t, plan_completion |-> c]
C5_DensityExtent ==
    /\ (pc \in {"plot", "done", "fatal"} /\ TruthfulAt # {}) =>
        /\ stats.raised = "nothing"
        /\ stats.density = [num |-> 1, den |-> Cardinality(TruthfulAt)]
        /\ stats.extent = IF DeceptiveAt = {} THEN 0
                          ELSE deception_array[LastDeceptive].plan_completion
    /\ LET r == calc_deceptive_stats(<<Rec(TRUE, 1), Rec(FALSE, 2), Rec(FALSE, 3),
                                       Rec(TRUE, 1), Rec(FALSE, 4)>>)
       IN r.raised = "nothing" /\ r.density = [num |-> 1, den |-> 2] /\ r.extent = 4

C5_Witness ==
    /\ pc = "plot"
    /\ \E i, j \in DeceptiveAt :
        /\ i < j /\ j = LastDeceptive
        /\ deception_array[i].plan_completion > deception_array[j].plan_completion
        /\ stats.extent = deception_array[j].plan_completion
    /\ \E k \in TruthfulAt : k > LastDeceptive

\* C6: on a deception_array without a truthful record calc_deceptive_stats
\* raises: no density is returned, and testApproaches goes no further.
C6_ZeroTruthsFatal ==
    (pc \in {"plot", "done", "fatal"} /\ TruthfulAt = {}) =>
        /\ pc = "fatal"
        /\ stats = NoStats
        /\ ~ ENABLED (CalcStats \/ PlotAndPrint \/ PathToGoal \/ ApplyOp \/ EndPath)

C6_Witness ==
    /\ pc = "fatal"
    /\ Len(deception_array) >= 2
    /\ stats = NoStats

\* C7: ordering_score of NewScoringApproach ends for every extraction
\* relation, also one where a landmark needs itself through other landmarks.
C7_ScoringTerminates == outcome # "RecursionError"

\* C8: in one NewScoringApproach.generate() over a relation without a cycle,
\* get_landmarks runs exactly once for every landmark scored, the landmarks
\* sorted among them, whatever an earlier generate() scored, and the score
\* kept for a landmark is the one the recursion defines.
RECURSIVE CoverageScore(_)
RECURSIVE SumCoverage(_)
CoverageScore(L) == 1 + SumCoverage(get_landmarks(L) \ L)
SumCoverage(S) ==
    IF S = {} THEN 0
    ELSE LET f == CHOOSE x \in S : TRUE
         IN CoverageScore(parse_goal({f})) + SumCoverage(S \ {f})

C8_OneExtractionPerLandmark ==
    IsNew =>
        /\ \A L \in Landmarks : calls[L] <= 1
        /\ \A L \in Landmarks : calls[L] = 1 <=> mem_dict[L] # 0
        /\ \A L \in combinedLandmarks : calls[L] = 1
        /\ \A L \in Landmarks : mem_dict[L] # 0 => mem_dict[L] = CoverageScore(L)

C8_Witness ==
    /\ IsNew
    /\ \E f, g \in Facts :
        /\ f # g /\ g \in need[f]
        /\ parse_goal({f}) \in combinedLandmarks
        /\ parse_goal({g}) \in combinedLandmarks
        /\ parse_goal({f}) # {}
        /\ calls[parse_goal({g})] = 1

\* C9 as stated: before the real goal the sequence of NewScoringApproach holds
\* each landmark of the union once, a higher score earlier.
Body == SubSeq(orderedPath, 1, Len(orderedPath) - 1)
BodyIsUnion ==
    /\ {Body[i] : i \in DOMAIN Body} = combinedLandmarks
    /\ Len(Body) = Cardinality(combinedLandmarks)
C10_GoalFieldRestored ==
    [][pc = "generate" => initialTaskGoals' = initialTaskGoals]_vars

\* the half of C10 about optc: during a replay task.goals is the goal
\* pathToGoal set, and deceptive_stats leaves task.initial_state alone
ReplayTaskKept ==
    pc = "apply" => task.goals = orderedPath[pathPos] /\ task.initial_state = steps

====
